---- MODULE Spec2Model ----
(***************************************************************************)
(* slint-evdev-input: the Collector state machine (src/lib.rs) that folds  *)
(* raw evdev events into slint pointer events, and the two adapters built  *)
(* on it: the blocking SlintEventsWrapper::fetch_events iterator and the   *)
(* async tokio::EventStream.                                               *)
(*                                                                         *)
(* Spec        : one Collector fed raw events one push at a time.          *)
(* SpecAdapter : a raw event sequence read by a synchronous wrapper (in    *)
(*               fetch batches) and by an asynchronous stream.             *)
(***************************************************************************)
EXTENDS Integers, Sequences, FiniteSets, TLC

VARIABLES
    collector,      \* Spec: the Collector {last_position, scale_factor, button_change}
    pushed,         \* Spec: raw events pushed so far, in order
    returned,       \* Spec: value returned by each push, in order
    raw,            \* SpecAdapter: raw events the device delivers, in order
    wrapper,        \* SpecAdapter: the SlintEventsWrapper used synchronously
    s_pc,           \* "ready" | "iterating" | "panicked"
    iter,           \* the live SlintEventsIterator {inner, collector}, or NoIter
    s_pos,          \* raw events handed to the synchronous adapter so far
    s_out,          \* WindowEvents returned by SlintEventsIterator::next
    s_fetch,        \* outcome of device.fetch_events() in the last fetch_events call
    awrapper,       \* the SlintEventsWrapper that is turned into a stream
    stream,         \* tokio::EventStream {collector}, or NoStream
    a_pc,           \* "wrapper" | "idle" | "awaiting"
    a_pos,          \* raw events delivered to the stream so far
    a_out,          \* Ok(WindowEvent) values returned by next_event
    a_fetch,        \* outcomes of evdev_stream.next_event() in the last next_event call
    a_result,       \* outcome of the last next_event call that returned
    s_fails,        \* failed raw fetches of the synchronous adapter
    a_fails         \* failed raw fetches of the stream

vars == <<collector, pushed, returned, raw, wrapper, s_pc, iter, s_pos, s_out,
          s_fetch, awrapper, stream, a_pc, a_pos, a_out, a_fetch, a_result,
          s_fails, a_fails>>

collectorVars == <<collector, pushed, returned>>
syncVars == <<wrapper, s_pc, iter, s_pos, s_out, s_fetch, s_fails>>
asyncVars == <<awrapper, stream, a_pc, a_pos, a_out, a_fetch, a_result, a_fails>>

----------------------------------------------------------------------------
(* Bounds *)

MaxPush == 4        \* raw events pushed into the single Collector of Spec
MaxRaw == 3         \* length of the enumerated raw sequences of SpecAdapter
MaxFail == 1        \* failed raw fetches per adapter

----------------------------------------------------------------------------
(* Raw events: evdev::EventSummary reduced to (kind, code, value) *)

Sync == [kind |-> "Synchronization", code |-> "SYN_REPORT", value |-> 0]
Abs(code, value) == [kind |-> "AbsoluteAxis", code |-> code, value |-> value]
Key(key, value) == [kind |-> "Key", code |-> key, value |-> value]
Other == [kind |-> "Misc", code |-> "MSC_SCAN", value |-> 0]

AxisCodes == {"ABS_X", "ABS_Y", "ABS_PRESSURE"}
AxisValues == {50, 100}
KeyValues == {-1, 0, 1, 2}

RawEvents ==
    {Sync, Other}
    \cup {Abs(c, v) : c \in AxisCodes, v \in AxisValues}
    \cup {Key("BTN_TOUCH", v) : v \in KeyValues}
    \cup {Key("BTN_LEFT", v) : v \in {0, 1}}

(* f32 scale factors as exact fractions <<numerator, denominator>> *)
ScaleFactors == {<<1, 1>>, <<2, 1>>, <<1, 2>>}

----------------------------------------------------------------------------
(* f32 arithmetic on the values used here, as reduced fractions *)

RECURSIVE GCD(_, _)
GCD(a, b) == IF b = 0 THEN a ELSE GCD(b, a % b)

AbsVal(n) == IF n < 0 THEN -n ELSE n

Reduce(n, d) ==
    LET g == GCD(AbsVal(n), AbsVal(d))
        s == IF d < 0 THEN -1 ELSE 1
    IN  <<(s * n) \div g, (s * d) \div g>>

(* `x as f32 / scale_factor` *)
F32Div(x, s) == Reduce(x * s[2], s[1])

----------------------------------------------------------------------------
(* Collector *)

NoEvent == [type |-> "None"]
PointerPressed(p) == [type |-> "PointerPressed", position |-> p, button |-> "Left"]
PointerReleased(p) == [type |-> "PointerReleased", position |-> p, button |-> "Left"]
PointerMoved(p) == [type |-> "PointerMoved", position |-> p]

CollectorNew(scale_factor, last_position) ==
    [last_position |-> last_position,
     scale_factor |-> scale_factor,
     button_change |-> "None"]

(* variant: the physical position is handed out without dividing by the scale factor *)
last_logical_position_Unscaled(c) ==
    <<F32Div(c.last_position[1], <<1, 1>>),
      F32Div(c.last_position[2], <<1, 1>>)>>

last_logical_position(c) ==
    <<F32Div(c.last_position[1], c.scale_factor),
      F32Div(c.last_position[2], c.scale_factor)>>

(* variant: a marker with no recorded transition is suppressed *)
PushSync_SuppressIdle(c) ==
    [c |-> [c EXCEPT !.button_change = "None"],
     ret |-> IF c.button_change = "Down" THEN PointerPressed(last_logical_position(c))
             ELSE IF c.button_change = "Up" THEN PointerReleased(last_logical_position(c))
             ELSE NoEvent]

(* variant: the transition is cleared only when no event was built from it *)
PushSync_NoReset(c) ==
    [c |-> c,
     ret |-> IF c.button_change = "Down" THEN PointerPressed(last_logical_position(c))
             ELSE IF c.button_change = "Up" THEN PointerReleased(last_logical_position(c))
             ELSE PointerMoved(last_logical_position(c))]

(* variant: a press stays recorded over the following markers until a release *)
PushSync_StickyDown(c) ==
    [c |-> IF c.button_change = "Down" THEN c ELSE [c EXCEPT !.button_change = "None"],
     ret |-> IF c.button_change = "Down" THEN PointerPressed(last_logical_position(c))
             ELSE IF c.button_change = "Up" THEN PointerReleased(last_logical_position(c))
             ELSE PointerMoved(last_logical_position(c))]

(* Each arm of push yields the Collector after the push and the returned value *)
PushSync(c) ==
    [c |-> [c EXCEPT !.button_change = "None"],
     ret |-> IF c.button_change = "Down" THEN PointerPressed(last_logical_position(c))
             ELSE IF c.button_change = "Up" THEN PointerReleased(last_logical_position(c))
             ELSE PointerMoved(last_logical_position(c))]

(* variant: an X update also overwrites Y *)
PushAbs_XWritesBoth(c, code, value) ==
    [c |-> IF code = "ABS_X" THEN [c EXCEPT !.last_position = <<value, value>>]
           ELSE IF code = "ABS_Y" THEN [c EXCEPT !.last_position[2] = value]
           ELSE c,
     ret |-> NoEvent]

PushAbs(c, code, value) ==
    [c |-> IF code = "ABS_X" THEN [c EXCEPT !.last_position[1] = value]
           ELSE IF code = "ABS_Y" THEN [c EXCEPT !.last_position[2] = value]
           ELSE c,
     ret |-> NoEvent]

(* variant: the first transition of a cycle is kept *)
PushKey_FirstWins(c, key, value) ==
    [c |-> IF key = "BTN_TOUCH" /\ c.button_change = "None"
           THEN IF value = 1 THEN [c EXCEPT !.button_change = "Down"]
                ELSE [c EXCEPT !.button_change = "Up"]
           ELSE c,
     ret |-> NoEvent]

(* variant: a recorded Down is not overwritten by a later release *)
PushKey_DownSticky(c, key, value) ==
    [c |-> IF key = "BTN_TOUCH"
           THEN IF value = 1 THEN [c EXCEPT !.button_change = "Down"]
                ELSE IF c.button_change = "Down" THEN c
                ELSE [c EXCEPT !.button_change = "Up"]
           ELSE c,
     ret |-> NoEvent]

(* variant: only value 0 is a release; auto-repeat and other values are ignored *)
PushKey_OnlyZeroIsUp(c, key, value) ==
    [c |-> IF key = "BTN_TOUCH"
           THEN IF value = 1 THEN [c EXCEPT !.button_change = "Down"]
                ELSE IF value = 0 THEN [c EXCEPT !.button_change = "Up"]
                ELSE c
           ELSE c,
     ret |-> NoEvent]

(* variant: the key code is not examined *)
PushKey_AnyKey(c, key, value) ==
    [c |-> IF value = 1 THEN [c EXCEPT !.button_change = "Down"]
           ELSE [c EXCEPT !.button_change = "Up"],
     ret |-> NoEvent]

PushKey(c, key, value) ==
    [c |-> IF key = "BTN_TOUCH"
           THEN IF value = 1 THEN [c EXCEPT !.button_change = "Down"]
                ELSE [c EXCEPT !.button_change = "Up"]
           ELSE c,
     ret |-> NoEvent]

Push(c, e) ==
    IF e.kind = "Synchronization" THEN PushSync(c)
    ELSE IF e.kind = "AbsoluteAxis" THEN PushAbs(c, e.code, e.value)
    ELSE IF e.kind = "Key" THEN PushKey(c, e.code, e.value)
    ELSE [c |-> c, ret |-> NoEvent]

----------------------------------------------------------------------------
(* SlintEventsWrapper, SlintEventsIterator, tokio::EventStream *)

WrapperNew(scale_factor) == [last_position |-> <<0, 0>>, scale_factor |-> scale_factor]

NoIter == [live |-> FALSE]
NoStream == [live |-> FALSE]

(* variant: the loop takes one more raw event after the marker before returning *)
RECURSIVE IterNextLoop_ReadAhead(_, _)
IterNextLoop_ReadAhead(inner, c) ==
    IF inner = <<>>
    THEN [inner |-> <<>>, collector |-> c, ret |-> NoEvent]
    ELSE LET r == Push(c, Head(inner))
         IN  IF r.ret # NoEvent
             THEN [inner |-> IF Len(inner) > 1 THEN Tail(Tail(inner)) ELSE <<>>,
                   collector |-> IF Len(inner) > 1 THEN Push(r.c, inner[2]).c ELSE r.c,
                   ret |-> r.ret]
             ELSE IterNextLoop_ReadAhead(Tail(inner), r.c)

(* variant: next gives up at the first raw event that yields nothing *)
IterNextLoop_StopAtFirst(inner, c) ==
    IF inner = <<>>
    THEN [inner |-> <<>>, collector |-> c, ret |-> NoEvent]
    ELSE LET r == Push(c, Head(inner))
         IN  [inner |-> Tail(inner), collector |-> r.c, ret |-> r.ret]

(* the read loop of SlintEventsIterator::next over the fetched batch *)
RECURSIVE IterNextLoop(_, _)
IterNextLoop(inner, c) ==
    IF inner = <<>>
    THEN [inner |-> <<>>, collector |-> c, ret |-> NoEvent]
    ELSE LET r == Push(c, Head(inner))
         IN  IF r.ret # NoEvent
             THEN [inner |-> Tail(inner), collector |-> r.c, ret |-> r.ret]
             ELSE IterNextLoop(Tail(inner), r.c)

----------------------------------------------------------------------------
(* Spec: one Collector, raw events pushed one at a time *)

InitAdapterIdle ==
    /\ raw = <<>>
    /\ wrapper = WrapperNew(<<1, 1>>)
    /\ s_pc = "ready" /\ iter = NoIter
    /\ s_pos = 0 /\ s_out = <<>> /\ s_fetch = <<>>
    /\ awrapper = WrapperNew(<<1, 1>>)
    /\ stream = NoStream
    /\ a_pc = "wrapper" /\ a_pos = 0 /\ a_out = <<>> /\ a_fetch = <<>>
    /\ a_result = "none"
    /\ s_fails = 0 /\ a_fails = 0

Init ==
    /\ \E sf \in ScaleFactors : collector = CollectorNew(sf, <<0, 0>>)
    /\ pushed = <<>>
    /\ returned = <<>>
    /\ InitAdapterIdle

CollectorPush(e) ==
    /\ Len(pushed) < MaxPush
    /\ collector' = Push(collector, e).c
    /\ pushed' = Append(pushed, e)
    /\ returned' = Append(returned, Push(collector, e).ret)
    /\ UNCHANGED <<raw, syncVars, asyncVars>>

Next == \E e \in RawEvents : CollectorPush(e)

Spec == Init /\ [][Next]_vars

----------------------------------------------------------------------------
(* SpecAdapter: the two adapters reading the same raw sequence *)

(* the raw events of tests/sync_test.rs and tests/tokio_test.rs; every     *)
(* emit() is closed by a synchronization marker                            *)
TestScript ==
    <<Abs("ABS_X", 120), Abs("ABS_Y", 12), Key("BTN_TOUCH", 1), Sync,
      Abs("ABS_X", 122), Abs("ABS_Y", 13), Sync,
      Abs("ABS_Y", 14), Sync,
      Key("BTN_TOUCH", 0), Sync>>

AdapterEvents ==
    {Sync, Abs("ABS_X", 120), Key("BTN_TOUCH", 1), Key("BTN_TOUCH", 0)}

RawScripts == {TestScript} \cup UNION {[1..k -> AdapterEvents] : k \in 1..MaxRaw}

AdapterScales == {<<1, 1>>, <<2, 1>>}

InitAdapter ==
    /\ collector = CollectorNew(<<1, 1>>, <<0, 0>>)
    /\ pushed = <<>>
    /\ returned = <<>>
    /\ raw \in RawScripts
    /\ \E sf \in AdapterScales :
          /\ (raw = TestScript) => (sf = <<1, 1>>)    \* the tests open the device at 1.0
          /\ wrapper = WrapperNew(sf)
          /\ awrapper = WrapperNew(sf)
    /\ s_pc = "ready" /\ iter = NoIter
    /\ s_pos = 0 /\ s_out = <<>> /\ s_fetch = <<>>
    /\ stream = NoStream
    /\ a_pc = "wrapper" /\ a_pos = 0 /\ a_out = <<>> /\ a_fetch = <<>>
    /\ a_result = "none"
    /\ s_fails = 0 /\ a_fails = 0

(* fetch_events: the device hands over the raw events up to index k *)
FetchEvents(k) ==
    /\ s_pc = "ready"
    /\ k \in (s_pos + 1)..Len(raw)
    /\ iter' = [live |-> TRUE,
                inner |-> SubSeq(raw, s_pos + 1, k),
                collector |-> CollectorNew(wrapper.scale_factor, wrapper.last_position)]
    /\ s_pos' = k
    /\ s_pc' = "iterating"
    /\ s_fetch' = <<"ok">>
    /\ s_fails' = s_fails
    /\ UNCHANGED <<wrapper, s_out, collectorVars, raw, asyncVars>>

(* fetch_events: device.fetch_events() returns Err and unwrap() panics *)
FetchEventsFail ==
    /\ s_pc = "ready"
    /\ s_fails < MaxFail
    /\ s_fetch' = <<"err">>
    /\ s_fails' = s_fails + 1
    /\ s_pc' = "panicked"
    /\ UNCHANGED <<wrapper, iter, s_pos, s_out, collectorVars, raw, asyncVars>>

(* variant: next stores the Collector's position back into the wrapper *)
IterNext_WritesBack ==
    /\ s_pc = "iterating"
    /\ LET r == IterNextLoop(iter.inner, iter.collector)
       IN  /\ wrapper' = [wrapper EXCEPT !.last_position = r.collector.last_position]
           /\ IF r.ret # NoEvent
              THEN /\ s_out' = Append(s_out, r.ret)
                   /\ iter' = [iter EXCEPT !.inner = r.inner, !.collector = r.collector]
                   /\ s_pc' = "iterating"
              ELSE /\ s_out' = s_out
                   /\ iter' = NoIter
                   /\ s_pc' = "ready"
    /\ UNCHANGED <<s_pos, s_fetch, s_fails, collectorVars, raw, asyncVars>>

(* SlintEventsIterator::next; the for loop drops the iterator on None *)
IterNext ==
    /\ s_pc = "iterating"
    /\ LET r == IterNextLoop(iter.inner, iter.collector)
       IN  IF r.ret # NoEvent
           THEN /\ s_out' = Append(s_out, r.ret)
                /\ iter' = [iter EXCEPT !.inner = r.inner, !.collector = r.collector]
                /\ s_pc' = "iterating"
           ELSE /\ s_out' = s_out
                /\ iter' = NoIter
                /\ s_pc' = "ready"
    /\ UNCHANGED <<wrapper, s_pos, s_fetch, s_fails, collectorVars, raw, asyncVars>>

IntoEventStream ==
    /\ a_pc = "wrapper"
    /\ stream' = [live |-> TRUE,
                  collector |-> CollectorNew(awrapper.scale_factor, awrapper.last_position)]
    /\ a_pc' = "idle"
    /\ UNCHANGED <<awrapper, a_pos, a_out, a_fetch, a_fails, a_result,
                   collectorVars, raw, syncVars>>

(* next_event is called and suspends at evdev_stream.next_event().await *)
NextEventCall ==
    /\ a_pc = "idle"
    /\ a_pc' = "awaiting"
    /\ a_fetch' = <<>>
    /\ UNCHANGED <<awrapper, stream, a_pos, a_out, a_fails, a_result,
                   collectorVars, raw, syncVars>>

(* the await completes with a raw event, which is pushed at once *)
NextEventResume ==
    /\ a_pc = "awaiting"
    /\ a_pos < Len(raw)
    /\ LET r == Push(stream.collector, raw[a_pos + 1])
       IN  /\ stream' = [stream EXCEPT !.collector = r.c]
           /\ IF r.ret # NoEvent
              THEN /\ a_out' = Append(a_out, r.ret)
                   /\ a_pc' = "idle"
                   /\ a_result' = "Ok"
              ELSE /\ a_out' = a_out
                   /\ a_pc' = "awaiting"
                   /\ a_result' = a_result
    /\ a_pos' = a_pos + 1
    /\ a_fetch' = Append(a_fetch, "ok")
    /\ UNCHANGED <<awrapper, a_fails, collectorVars, raw, syncVars>>

(* variant: a failed raw fetch is retried inside the same call *)
NextEventFail_Retry ==
    /\ a_pc = "awaiting"
    /\ a_fails < MaxFail
    /\ a_pos < Len(raw)
    /\ LET r == Push(stream.collector, raw[a_pos + 1])
       IN  /\ stream' = [stream EXCEPT !.collector = r.c]
           /\ IF r.ret # NoEvent
              THEN /\ a_out' = Append(a_out, r.ret)
                   /\ a_pc' = "idle"
                   /\ a_result' = "Ok"
              ELSE /\ a_out' = a_out
                   /\ a_pc' = "awaiting"
                   /\ a_result' = a_result
    /\ a_pos' = a_pos + 1
    /\ a_fetch' = a_fetch \o <<"err", "ok">>
    /\ a_fails' = a_fails + 1
    /\ UNCHANGED <<awrapper, collectorVars, raw, syncVars>>

(* the await completes with Err, which `?` returns to the caller *)
NextEventFail ==
    /\ a_pc = "awaiting"
    /\ a_fails < MaxFail
    /\ a_fetch' = Append(a_fetch, "err")
    /\ a_fails' = a_fails + 1
    /\ a_result' = "Err"
    /\ a_pc' = "idle"
    /\ UNCHANGED <<awrapper, stream, a_pos, a_out, collectorVars, raw, syncVars>>

(* variant: a raw event already taken from the device is dropped with the future *)
NextEventCancel_LosesEvent ==
    /\ a_pc = "awaiting"
    /\ a_pc' = "idle"
    /\ a_pos' = IF a_pos < Len(raw) THEN a_pos + 1 ELSE a_pos
    /\ UNCHANGED <<awrapper, stream, a_out, a_fetch, a_fails, a_result,
                   collectorVars, raw, syncVars>>

(* the caller drops the suspended next_event future *)
NextEventCancel ==
    /\ a_pc = "awaiting"
    /\ a_pc' = "idle"
    /\ UNCHANGED <<awrapper, stream, a_pos, a_out, a_fetch, a_fails, a_result,
                   collectorVars, raw, syncVars>>

NextAdapter ==
    \/ \E k \in 1..Len(raw) : FetchEvents(k)
    \/ FetchEventsFail
    \/ IterNext
    \/ IntoEventStream
    \/ NextEventCall
    \/ NextEventResume
    \/ NextEventFail
    \/ NextEventCancel

SpecAdapter == InitAdapter /\ [][NextAdapter]_vars

----------------------------------------------------------------------------
(* SpecSync: the synchronous adapter alone, driven as in tests/sync_test.rs *)
(* by a `for` loop that calls next until it returns None                    *)

NextSync ==
    \/ \E k \in 1..Len(raw) : FetchEvents(k)
    \/ FetchEventsFail
    \/ IterNext

SpecSync == InitAdapter /\ [][NextSync]_vars /\ WF_vars(IterNext)

----------------------------------------------------------------------------
(* Reading the push history of Spec *)

IsSync(e) == e.kind = "Synchronization"
IsTouchKey(e) == e.kind = "Key" /\ e.code = "BTN_TOUCH"
IsPress(e) == IsTouchKey(e) /\ e.value = 1
IsRelease(e) == IsTouchKey(e) /\ e.value = 0

SetMax(S) == CHOOSE m \in S : \A n \in S : n <= m

SyncIdx(seq) == {j \in 1..Len(seq) : IsSync(seq[j])}

(* index of the marker that closed the previous cycle, 0 if there is none *)
CycleStart(seq, j) == SetMax({0} \cup {i \in 1..(j - 1) : IsSync(seq[i])})

(* touch-key events of the cycle that the marker at j closes *)
TouchIdx(seq, j) == {i \in (CycleStart(seq, j) + 1)..(j - 1) : IsTouchKey(seq[i])}

(* most recent value delivered for an axis before index j, the initial 0 if none *)
LatestAxis(seq, j, code) ==
    LET S == {i \in 1..(j - 1) : seq[i].kind = "AbsoluteAxis" /\ seq[i].code = code}
    IN  IF S = {} THEN 0 ELSE seq[SetMax(S)].value

(* fraction q = <<n, d>> equals x divided by the scale factor s *)
IsQuotient(q, x, s) == q[2] > 0 /\ q[1] * s[1] = x * s[2] * q[2]

----------------------------------------------------------------------------
(* C1: push returns an event exactly on a Synchronization marker, so the   *)
(* number of events produced equals the number of markers pushed.          *)
C1_OneEventPerSync ==
    /\ Len(returned) = Len(pushed)
    /\ \A i \in 1..Len(pushed) : (returned[i] # NoEvent) <=> IsSync(pushed[i])
    /\ Cardinality({i \in 1..Len(returned) : returned[i] # NoEvent})
         = Cardinality(SyncIdx(pushed))

C1_Witness ==
    /\ Len(pushed) >= 4
    /\ Cardinality(SyncIdx(pushed)) = 2
    /\ IsSync(pushed[2]) /\ IsSync(pushed[3])
    /\ returned[1] = NoEvent /\ returned[4] = NoEvent
    /\ returned[2] # NoEvent /\ returned[3] # NoEvent

(* C3 as stated: a touch-key press anywhere in a cycle makes the closing   *)
(* marker emit PointerPressed, also when a release follows the press.      *)
C3_PressAnywhereWins ==
    \A j \in SyncIdx(pushed) :
        (\E i \in TouchIdx(pushed, j) : IsPress(pushed[i]))
            => returned[j].type = "PointerPressed"

(* C3 amended: a cycle whose last touch-key event is a press emits         *)
(* PointerPressed whatever axis updates or earlier releases it contains;   *)
(* a press followed by a release emits PointerReleased.                    *)
C3_LastPressWins ==
    \A j \in SyncIdx(pushed) :
        /\ (TouchIdx(pushed, j) # {} /\ IsPress(pushed[SetMax(TouchIdx(pushed, j))]))
               => returned[j].type = "PointerPressed"
        /\ \A i \in TouchIdx(pushed, j) :
               (IsPress(pushed[i]) /\ i + 1 \in TouchIdx(pushed, j)
                   /\ IsRelease(pushed[i + 1]) /\ SetMax(TouchIdx(pushed, j)) = i + 1)
               => returned[j].type = "PointerReleased"

C3_Witness ==
    /\ Len(pushed) >= 4
    /\ IsRelease(pushed[1])
    /\ pushed[2].kind = "AbsoluteAxis"
    /\ IsPress(pushed[3])
    /\ IsSync(pushed[4])
    /\ returned[4].type = "PointerPressed"

(* C4: one transition per cycle, the last touch-key event wins; earlier    *)
(* transitions of the cycle produce no event of their own.                 *)
C4_LastTouchKeyWins ==
    /\ \A j \in SyncIdx(pushed) :
          TouchIdx(pushed, j) # {} =>
              LET last == pushed[SetMax(TouchIdx(pushed, j))]
              IN  /\ IsPress(last) => returned[j].type = "PointerPressed"
                  /\ IsRelease(last) => returned[j].type = "PointerReleased"
    /\ \A i \in 1..Len(pushed) : IsTouchKey(pushed[i]) => returned[i] = NoEvent
    /\ Cardinality({i \in 1..Len(returned) :
                       returned[i] # NoEvent /\ returned[i].type # "PointerMoved"})
         <= Cardinality({j \in SyncIdx(pushed) : TouchIdx(pushed, j) # {}})

C4_Witness ==
    /\ Len(pushed) >= 4
    /\ IsPress(pushed[1]) /\ IsRelease(pushed[2]) /\ IsSync(pushed[3])
    /\ returned[3].type = "PointerReleased"
    /\ IsSync(pushed[4])
    /\ returned[4].type = "PointerMoved"

(* C5: the transition is None after every marker, so a marker that follows *)
(* a marker with no touch-key event in between yields PointerMoved, also   *)
(* at an unchanged position.                                               *)
C5_ResetAtSync ==
    /\ (pushed # <<>> /\ IsSync(pushed[Len(pushed)])) => collector.button_change = "None"
    /\ \A j \in SyncIdx(pushed) :
          (CycleStart(pushed, j) > 0 /\ TouchIdx(pushed, j) = {})
              => returned[j].type = "PointerMoved"

C5_Witness ==
    /\ Len(pushed) >= 3
    /\ IsPress(pushed[1]) /\ IsSync(pushed[2]) /\ IsSync(pushed[3])
    /\ returned[2].type = "PointerPressed"
    /\ returned[3].type = "PointerMoved"
    /\ returned[3].position = returned[2].position

(* C6: each stored coordinate is the value of the last update of its own   *)
(* axis (0 before any), untouched by updates of the other axis, by markers *)
(* and by key events.                                                      *)
C6_AxisIndependence ==
    /\ collector.last_position[1] = LatestAxis(pushed, Len(pushed) + 1, "ABS_X")
    /\ collector.last_position[2] = LatestAxis(pushed, Len(pushed) + 1, "ABS_Y")

C6_Witness ==
    /\ Len(pushed) >= 4
    /\ pushed[1] = Abs("ABS_Y", 50)
    /\ IsSync(pushed[2])
    /\ pushed[3] = Abs("ABS_X", 100)
    /\ IsTouchKey(pushed[4])
    /\ collector.last_position = <<100, 50>>

(* C9: every emitted position is the stored physical position divided by   *)
(* the construction-time scale factor, which never changes; scale 2.0 with *)
(* X=100, Y=50 and a marker yields PointerMoved(50.0, 25.0).               *)
C9_PositionsScaled ==
    /\ \A j \in SyncIdx(pushed) :
          /\ IsQuotient(returned[j].position[1],
                        LatestAxis(pushed, j, "ABS_X"), collector.scale_factor)
          /\ IsQuotient(returned[j].position[2],
                        LatestAxis(pushed, j, "ABS_Y"), collector.scale_factor)
    /\ (/\ collector.scale_factor = <<2, 1>>
        /\ Len(pushed) >= 3
        /\ pushed[1] = Abs("ABS_X", 100) /\ pushed[2] = Abs("ABS_Y", 50)
        /\ IsSync(pushed[3]))
          => returned[3] = PointerMoved(<<(<<50, 1>>), (<<25, 1>>)>>)

C9_ScaleImmutable == [][collector'.scale_factor = collector.scale_factor]_vars

C9_Scaling == []C9_PositionsScaled /\ C9_ScaleImmutable

C9_Witness ==
    /\ collector.scale_factor = <<2, 1>>
    /\ Len(pushed) >= 3
    /\ pushed[1] = Abs("ABS_X", 100) /\ pushed[2] = Abs("ABS_Y", 50)
    /\ IsSync(pushed[3])
    /\ returned[3].position = <<(<<50, 1>>), (<<25, 1>>)>>

(* C10: a key event for another key, an axis event for an axis other than  *)
(* X and Y, and any other raw event kind change nothing and return nothing *)
NotOfInterest(e) ==
    \/ e.kind = "Key" /\ e.code # "BTN_TOUCH"
    \/ e.kind = "AbsoluteAxis" /\ e.code \notin {"ABS_X", "ABS_Y"}
    \/ e.kind \notin {"Synchronization", "AbsoluteAxis", "Key"}

C10_UninterestingIgnored ==
    [][(Len(pushed') = Len(pushed) + 1 /\ NotOfInterest(pushed'[Len(pushed')]))
          => /\ collector' = collector
             /\ returned'[Len(returned')] = NoEvent]_vars

C10_Witness ==
    /\ Len(pushed) >= 4
    /\ pushed[1] = Abs("ABS_X", 50)
    /\ pushed[2] = Key("BTN_LEFT", 1)
    /\ pushed[3] = Abs("ABS_PRESSURE", 100)
    /\ pushed[4] = Other
    /\ collector.last_position = <<50, 0>>
    /\ collector.button_change = "None"
    /\ returned[2] = NoEvent /\ returned[3] = NoEvent /\ returned[4] = NoEvent

----------------------------------------------------------------------------
(* Claims about the adapters (SpecAdapter) *)

(* index in seq of its i-th synchronization marker *)
NthSync(seq, i) ==
    CHOOSE j \in SyncIdx(seq) : Cardinality({k \in SyncIdx(seq) : k <= j}) = i

F(n) == <<n, 1>>

(* C2: every event of the synchronous adapter carries, per axis, the most  *)
(* recent value delivered since the wrapper was created, however the raw   *)
(* events are split over fetch_events calls; the four cycles of the test   *)
(* yield Pressed(120,12), Moved(122,13), Moved(122,14), Released(122,14).  *)
C2_SyncPositionsPersist ==
    /\ \A i \in 1..Len(s_out) :
          LET j == NthSync(raw, i)
          IN  /\ IsQuotient(s_out[i].position[1],
                            LatestAxis(raw, j, "ABS_X"), wrapper.scale_factor)
              /\ IsQuotient(s_out[i].position[2],
                            LatestAxis(raw, j, "ABS_Y"), wrapper.scale_factor)
    /\ (/\ raw = TestScript
        /\ wrapper.scale_factor = <<1, 1>>
        /\ s_pos = Len(raw)
        /\ s_pc = "ready")
          => s_out = <<PointerPressed(<<F(120), F(12)>>),
                       PointerMoved(<<F(122), F(13)>>),
                       PointerMoved(<<F(122), F(14)>>),
                       PointerReleased(<<F(122), F(14)>>)>>

(* C7: for the same scale factor and raw sequence, the events returned by  *)
(* next_event equal the events obtained by draining fetch_events batches,  *)
(* however the raw events are grouped into batches.                        *)
C7_AdaptersAgree ==
    (s_pc = "ready" /\ a_pc # "wrapper" /\ s_pos = a_pos
        /\ wrapper.scale_factor = awrapper.scale_factor)
        => s_out = a_out

(* C8: a failed raw fetch ends its operation with an error outcome after   *)
(* that one attempt, with no event emitted, nothing pushed and the         *)
(* Collector left as it was.                                               *)
HasErr(log) == \E i \in 1..Len(log) : log[i] = "err"

C8_FetchFailurePropagates ==
    [][/\ (a_fails' > a_fails) =>
             /\ a_fetch' = Append(a_fetch, "err")
             /\ a_fails' = a_fails + 1
             /\ a_result' = "Err"
             /\ a_pc' = "idle"
             /\ a_out' = a_out
             /\ a_pos' = a_pos
             /\ stream' = stream
       /\ (s_fails' > s_fails) =>
             /\ s_fetch' = <<"err">>
             /\ s_fails' = s_fails + 1
             /\ s_pc' = "panicked"
             /\ s_out' = s_out
             /\ s_pos' = s_pos
             /\ iter' = iter
             /\ wrapper' = wrapper]_vars

C8_Witness ==
    /\ a_result = "Err"
    /\ a_fetch = <<"ok", "ok", "err">>
    /\ a_pc = "idle"
    /\ stream.collector.last_position = <<120, 0>>
    /\ stream.collector.button_change = "Down"
    /\ s_pc = "panicked"
    /\ s_fetch = <<"err">>
    /\ s_out # <<>>

----------------------------------------------------------------------------
(* A single Collector run over a raw sequence: the reference the adapters  *)
(* are compared with                                                       *)

RECURSIVE PushAll(_, _)
PushAll(c, seq) == IF seq = <<>> THEN c ELSE PushAll(Push(c, Head(seq)).c, Tail(seq))

(* event a Collector created with scale factor sf emits at the marker seq[j] *)
RefEvent(seq, j, sf) ==
    Push(PushAll(CollectorNew(sf, <<0, 0>>), SubSeq(seq, 1, j - 1)), seq[j]).ret

SyncCount(seq) == Cardinality(SyncIdx(seq))

(* raw events of the batch that the iterator has taken so far *)
SyncConsumed == IF s_pc = "iterating" THEN s_pos - Len(iter.inner) ELSE s_pos

(* C11: an operation that returns an event has consumed, in order, raw     *)
(* events up to and including exactly one synchronization marker, the last *)
(* event it took; nothing after the marker is taken, no marker is consumed *)
(* without an event being returned, and the i-th event returned belongs to *)
(* the i-th marker.                                                        *)
C11_IterNextStep ==
    (s_pc = "iterating" /\ <<iter, s_out, s_pc>>' # <<iter, s_out, s_pc>>) =>
        LET rest == IF s_pc' = "iterating" THEN iter'.inner ELSE <<>>
            n == Len(iter.inner) - Len(rest)
            cons == SubSeq(iter.inner, 1, n)
        IN  /\ (s_out' # s_out) =>
                  /\ Len(s_out') = Len(s_out) + 1
                  /\ SubSeq(s_out', 1, Len(s_out)) = s_out
                  /\ n >= 1
                  /\ IsSync(cons[n])
                  /\ SyncCount(cons) = 1
                  /\ rest = SubSeq(iter.inner, n + 1, Len(iter.inner))
            /\ (s_out' = s_out) => SyncCount(cons) = 0

C11_NextEventStep ==
    /\ (a_out' # a_out) =>
          /\ Len(a_out') = Len(a_out) + 1
          /\ SubSeq(a_out', 1, Len(a_out)) = a_out
          /\ a_pos' = a_pos + 1
          /\ IsSync(raw[a_pos'])
          /\ a_pc' = "idle"
          /\ a_fetch' = Append(a_fetch, "ok")
          /\ SyncCount(SubSeq(raw, a_pos' - Len(a_fetch') + 1, a_pos')) = 1
    /\ (a_out' = a_out /\ a_pos' # a_pos) =>
          /\ a_pos' = a_pos + 1
          /\ ~IsSync(raw[a_pos'])

C11_InMarkerOrder ==
    /\ Len(s_out) = SyncCount(SubSeq(raw, 1, SyncConsumed))
    /\ Len(a_out) = SyncCount(SubSeq(raw, 1, a_pos))
    /\ \A i \in 1..Len(a_out) :
          a_out[i] = RefEvent(raw, NthSync(raw, i), awrapper.scale_factor)

C12_OneCollectorPerWrapper ==
    \A i \in 1..Len(s_out) :
        s_out[i] = RefEvent(raw, NthSync(raw, i), wrapper.scale_factor)

(* C13: a next_event call is dropped only while it waits for a raw event;  *)
(* fetching a raw event and pushing it are one step, so the stream's       *)
(* Collector always holds every raw event fetched so far, a cancellation   *)
(* changes nothing, and the event a later call emits at the next marker is *)
(* the one an uncancelled run emits there.                                 *)
C13_AllFetchedApplied ==
    stream.live =>
        stream.collector =
            PushAll(CollectorNew(awrapper.scale_factor, <<0, 0>>), SubSeq(raw, 1, a_pos))

C13_CancelStep ==
    /\ (a_pc = "awaiting" /\ a_pc' = "idle" /\ a_out' = a_out /\ a_fails' = a_fails)
          => (stream' = stream /\ a_pos' = a_pos)
    /\ (a_pos' # a_pos)
          => /\ a_pc = "awaiting"
             /\ a_pos' = a_pos + 1
             /\ stream'.collector = Push(stream.collector, raw[a_pos']).c
    /\ (a_out' # a_out)
          => a_out'[Len(a_out')] = RefEvent(raw, a_pos', awrapper.scale_factor)

C13_CancelSafe == []C13_AllFetchedApplied /\ [][C13_CancelStep]_vars

(* a call was dropped after X=120 and touch-down were fetched; the next    *)
(* call fetched only the marker and returned the press at (120, 0)         *)
C13_Witness ==
    /\ raw = <<Abs("ABS_X", 120), Key("BTN_TOUCH", 1), Sync>>
    /\ awrapper.scale_factor = <<1, 1>>
    /\ a_pc = "idle" /\ a_result = "Ok" /\ a_fails = 0
    /\ a_pos = 3
    /\ a_fetch = <<"ok">>
    /\ a_out = <<PointerPressed(<<F(120), F(0)>>)>>

(* C14: next returns None exactly when the rest of the fetched batch holds *)
(* no synchronization marker, having read the batch to its end; a batch    *)
(* with n markers yields n events and then None, and iterating a finite    *)
(* batch always comes to that end.                                         *)
C14_NoneIffNoMarkerLeft ==
    (s_pc = "iterating" /\ <<iter, s_out, s_pc>>' # <<iter, s_out, s_pc>>) =>
        /\ (s_pc' = "ready") <=> (SyncCount(iter.inner) = 0)
        /\ (s_pc' = "ready") => (s_out' = s_out /\ iter' = NoIter)
        /\ (s_pc' # "ready") =>
              /\ s_pc' = "iterating"
              /\ Len(s_out') = Len(s_out) + 1
              /\ SyncCount(iter'.inner) = SyncCount(iter.inner) - 1

C14_BatchYield ==
    /\ s_pc = "iterating" =>
          Len(s_out) + SyncCount(iter.inner) = SyncCount(SubSeq(raw, 1, s_pos))
    /\ s_pc = "ready" => Len(s_out) = SyncCount(SubSeq(raw, 1, s_pos))

C14_IteratorEnds ==
    /\ []C14_BatchYield
    /\ [][C14_NoneIffNoMarkerLeft]_vars
    /\ ((s_pc = "iterating") ~> (s_pc = "ready"))

(* one batch [X=120, sync, sync] gave two events and then None *)
C14_Witness ==
    /\ raw = <<Abs("ABS_X", 120), Sync, Sync>>
    /\ wrapper.scale_factor = <<1, 1>>
    /\ s_pc = "ready" /\ s_pos = 3
    /\ s_out = <<PointerMoved(<<F(120), F(0)>>), PointerMoved(<<F(120), F(0)>>)>>

----------------------------------------------------------------------------
(* C15: the kind of event emitted at a marker depends only on the          *)
(* touch-key events pushed since the previous marker: it is the kind a new *)
(* Collector emits for that cycle alone, it is the same for any two cycles *)
(* with the same touch-key events, and consecutive cycles that each hold a *)
(* touch-down and no release each emit PointerPressed.                     *)
CycleEvents(seq, j) == SubSeq(seq, CycleStart(seq, j) + 1, j - 1)

CycleTouch(seq, j) == SelectSeq(CycleEvents(seq, j), IsTouchKey)

OnlyPresses(seq, j) ==
    /\ TouchIdx(seq, j) # {}
    /\ \A i \in TouchIdx(seq, j) : IsPress(seq[i])

C15_PerCycleMachine ==
    /\ \A j \in SyncIdx(pushed) :
          returned[j].type =
              Push(PushAll(CollectorNew(collector.scale_factor, <<0, 0>>),
                           CycleEvents(pushed, j)), Sync).ret.type
    /\ \A j1, j2 \in SyncIdx(pushed) :
          CycleTouch(pushed, j1) = CycleTouch(pushed, j2)
              => returned[j1].type = returned[j2].type
    /\ \A j \in SyncIdx(pushed) :
          (/\ CycleStart(pushed, j) > 0
           /\ OnlyPresses(pushed, j)
           /\ OnlyPresses(pushed, CycleStart(pushed, j)))
              => /\ returned[j].type = "PointerPressed"
                 /\ returned[CycleStart(pushed, j)].type = "PointerPressed"

C15_Witness ==
    /\ Len(pushed) >= 4
    /\ IsPress(pushed[1]) /\ IsSync(pushed[2])
    /\ IsPress(pushed[3]) /\ IsSync(pushed[4])
    /\ returned[2].type = "PointerPressed"
    /\ returned[4].type = "PointerPressed"

(* C16: a BTN_TOUCH key event records Down only for value 1; value 0, the  *)
(* auto-repeat value 2, a negative value and any other value record Up,    *)
(* and the next marker then yields PointerReleased.                        *)
C16_OnlyOneIsDown ==
    /\ (pushed # <<>> /\ IsTouchKey(pushed[Len(pushed)])) =>
          collector.button_change =
              IF pushed[Len(pushed)].value = 1 THEN "Down" ELSE "Up"
    /\ \A j \in SyncIdx(pushed) :
          TouchIdx(pushed, j) # {} =>
              LET v == pushed[SetMax(TouchIdx(pushed, j))].value
              IN  returned[j].type = IF v = 1 THEN "PointerPressed" ELSE "PointerReleased"

C16_Witness ==
    /\ Len(pushed) >= 4
    /\ pushed[1] = Key("BTN_TOUCH", 2) /\ IsSync(pushed[2])
    /\ pushed[3] = Key("BTN_TOUCH", -1) /\ IsSync(pushed[4])
    /\ returned[2].type = "PointerReleased"
    /\ returned[4].type = "PointerReleased"

----------------------------------------------------------------------------
(* C17: last_position of a SlintEventsWrapper is (0, 0) in every state, so *)
(* the Collector built by each fetch_events call and by into_event_stream  *)
(* starts at position (0, 0) with no transition, whatever earlier batches  *)
(* have delivered.                                                         *)
FreshCollector(sf) ==
    [last_position |-> <<0, 0>>, scale_factor |-> sf, button_change |-> "None"]

C17_WrapperAtOrigin ==
    /\ wrapper.last_position = <<0, 0>>
    /\ awrapper.last_position = <<0, 0>>
    /\ CollectorNew(wrapper.scale_factor, wrapper.last_position)
          = FreshCollector(wrapper.scale_factor)

C17_BuildStep ==
    /\ (s_pc = "ready" /\ s_pc' = "iterating")
          => iter'.collector = FreshCollector(wrapper.scale_factor)
    /\ (a_pc = "wrapper" /\ a_pc' # "wrapper")
          => stream'.collector = FreshCollector(awrapper.scale_factor)

C17_LastPositionNeverWritten == []C17_WrapperAtOrigin /\ [][C17_BuildStep]_vars

(* a second batch starts from (0, 0) after the first one emitted at X=120 *)
C17_Witness ==
    /\ Len(raw) = 3
    /\ raw[1] = Abs("ABS_X", 120) /\ IsSync(raw[2])
    /\ wrapper.scale_factor = <<1, 1>>
    /\ s_out = <<PointerMoved(<<F(120), F(0)>>)>>
    /\ s_pc = "iterating" /\ s_pos = 3 /\ Len(iter.inner) = 1
    /\ iter.collector = FreshCollector(<<1, 1>>)
    /\ wrapper.last_position = <<0, 0>>
    /\ stream.live /\ a_pos = 0

====
